---- MODULE Spec2Model ----
(***************************************************************************)
(* mouse-checker: a terminal utility that lists the time elapsed between   *)
(* mouse clicks (src/main.rs).  The model covers main, run_app, ui and     *)
(* AppState (new, reset, on_click).                                        *)
(*                                                                         *)
(* Time.  std::time::Duration and Instant have nanosecond resolution; the  *)
(* model counts time in ticks, TicksPerMs ticks to the millisecond, so     *)
(* that Duration::as_millis truncates as it does in the program.  The      *)
(* monotonic clock is the variable now; every Instant::now() of the source *)
(* is a separate read of it, and time may pass between two reads.          *)
(***************************************************************************)
EXTENDS Integers, Sequences, FiniteSets, TLC

\* ---- bounds of the model ------------------------------------------------
TicksPerMs == 2     \* clock ticks per millisecond
MaxTime    == 6     \* the clock is explored up to this tick
MaxStep    == 2     \* most ticks that pass while event::read() blocks
MaxLag     == 1     \* most ticks between two clock reads of one on_click
MaxReads   == 4     \* most input events read before only 'q' is delivered
MaxMillis  == 2     \* largest --millisecond option explored
SmallHeight == 3    \* a terminal of few rows
LargeHeight == 24   \* a terminal of many rows

\* ---- program constants --------------------------------------------------
MsPerSec == 1000

\* u16 values are taken modulo this.
U16 == 65536

TicksPerSec == MsPerSec * TicksPerMs

\* ---- command line (struct Args) -----------------------------------------
\* --sec is an f32; a value is written here as the fraction num/den seconds.
SecDefault == [num |-> 1, den |-> 1]

SecValues == { [num |-> -1, den |-> 1],
               [num |-> 0, den |-> 1],
               [num |-> 3, den |-> 2 * MsPerSec],
               SecDefault }

Args == [sec : SecValues, millisecond : 0..MaxMillis]

\* Duration::from_secs_f32: the whole number of ticks in num/den seconds.
from_secs_f32(s) == (s.num * TicksPerSec) \div s.den

\* Duration::from_secs_f32 panics on a negative value.
from_secs_f32_panics(s) == s.num < 0

\* Duration::from_millis
from_millis(ms) == ms * TicksPerMs

\* Mutant: the tick count taken for the millisecond count.
as_millis_ticks(d) == d

\* Duration::as_millis: whole milliseconds, the remainder dropped.
as_millis(d) == d \div TicksPerMs

\* Mutant: --millisecond not looked at.
detect_duration_sec_only(a) == from_secs_f32(a.sec)

\* main, lines 73-77: the threshold chosen from the two options.
detect_duration(a) ==
    IF a.millisecond = 0 THEN from_secs_f32(a.sec) ELSE from_millis(a.millisecond)

\* main, lines 73-77: computing the threshold panics.
detect_duration_panics(a) == a.millisecond = 0 /\ from_secs_f32_panics(a.sec)

\* ---- input events (crossterm::event::Event) -----------------------------
MouseDown  == [type |-> "Mouse", kind |-> "Down"]
MouseUp    == [type |-> "Mouse", kind |-> "Up"]
MouseMoved == [type |-> "Mouse", kind |-> "Moved"]
KeyQ       == [type |-> "Key", code |-> "q"]
KeyOther   == [type |-> "Key", code |-> "x"]
Resize     == [type |-> "Resize"]

Events == {MouseDown, MouseUp, MouseMoved, KeyQ, KeyOther, Resize}

NoEvent == [type |-> "None"]

\* ---- AppState -----------------------------------------------------------
\* AppState::new
AppState_new(d, t) == [event |-> << >>, duration |-> d, instant |-> t]

\* Mutant: the list cleared without moving the anchor.
reset_noanchor(s, t) == [s EXCEPT !.event = << >>]

\* Mutant: the anchor moved without clearing the list.
reset_keep(s, t) == [s EXCEPT !.instant = t]

\* AppState::reset; t is the value its Instant::now() returns.
reset(s, t) == [s EXCEPT !.instant = t, !.event = << >>]

\* Mutant: the elapsed time cut to whole milliseconds.
elapsed_whole_ms(inst, t) == ((t - inst) \div TicksPerMs) * TicksPerMs

\* Instant::elapsed at time t
elapsed(inst, t) == t - inst

\* Mutant: the anchor moved at every click.
on_click_anchor_always(s, t1) == [s EXCEPT !.instant = t1]

\* on_click, lines 52-54: an empty list restarts the sequence at t1.
on_click_anchor(s, t1) == IF s.event = << >> THEN [s EXCEPT !.instant = t1] ELSE s

\* on_click, lines 56-60: zero on an empty list, else the time since instant.
on_click_dur(s, t1) == IF s.event = << >> THEN 0 ELSE elapsed(s.instant, t1)

\* Mutant: the comparison made on whole milliseconds.
TooLate_millis(dur, s) == as_millis(dur) > as_millis(s.duration)

\* Mutant: a click exactly at the threshold taken for late.
TooLate_ge(dur, s) == dur >= s.duration

\* Mutant: the comparison turned round.
TooLate_reversed(dur, s) == dur < s.duration

\* on_click, line 62: the reset test.
TooLate(dur, s) == dur > s.duration

\* Mutant: the late interval recorded after the reset (line 64 left out).
on_click_keepdur(s, t1, t2) ==
    LET s1   == on_click_anchor(s, t1)
        dur0 == on_click_dur(s1, t1)
        s2   == IF TooLate(dur0, s1) THEN reset(s1, t2) ELSE s1
    IN  [s2 EXCEPT !.event = Append(s2.event, dur0)]

\* Mutant: the late click itself not recorded after the reset.
on_click_reset_only(s, t1, t2) ==
    LET s1   == on_click_anchor(s, t1)
        dur0 == on_click_dur(s1, t1)
    IN  IF TooLate(dur0, s1) THEN reset(s1, t2)
        ELSE [s1 EXCEPT !.event = Append(s1.event, dur0)]

\* AppState::on_click.  t1 is the clock value of its first read (line 53 or
\* line 59), t2 >= t1 the value read by reset() when line 63 calls it.
on_click(s, t1, t2) ==
    LET s1   == on_click_anchor(s, t1)
        dur0 == on_click_dur(s1, t1)
        s2   == IF TooLate(dur0, s1) THEN reset(s1, t2) ELSE s1
        dur  == IF TooLate(dur0, s1) THEN 0 ELSE dur0
    IN  [s2 EXCEPT !.event = Append(s2.event, dur)]

\* The clock value of the last read an on_click makes.
on_click_clock(s, t1, t2) ==
    IF TooLate(on_click_dur(on_click_anchor(s, t1), t1), s) THEN t2 ELSE t1

\* ---- ui -----------------------------------------------------------------
Digit(d) ==
    CASE d = 0 -> "0" [] d = 1 -> "1" [] d = 2 -> "2" [] d = 3 -> "3" [] d = 4 -> "4"
      [] d = 5 -> "5" [] d = 6 -> "6" [] d = 7 -> "7" [] d = 8 -> "8" [] d = 9 -> "9"

\* Display of an unsigned integer in decimal ("{}").
RECURSIVE Decimal(_)
Decimal(n) == IF n < 10 THEN Digit(n) ELSE Decimal(n \div 10) \o Digit(n % 10)

\* ui, line 137
FormatLine(dur) == Decimal(as_millis(dur)) \o " ms"

Placeholder == "please click the mouse!"

\* ui, lines 132-139: the lines given to the Paragraph.
ui_text(s) ==
    IF s.event = << >> THEN << Placeholder >>
    ELSE [i \in 1..Len(s.event) |-> FormatLine(s.event[i])]

\* Mutant: the list drained while it is drawn.
ui_app_drain(s) == [s EXCEPT !.event = << >>]

\* ui, lines 124-157: what ui leaves of the AppState it borrows mutably.
ui_app(s) == s

\* The terminal heights f.size() may report (ui, line 125).
Heights == {SmallHeight, LargeHeight}

\* ui, line 141: 2 + app.event.len() as u16
PaddingRows(n) == (2 + (n % U16)) % U16

\* ui, line 141: the u16 subtraction size.height - (2 + len) goes below zero.
Underflows(h, n) == h < PaddingRows(n)

\* ui, line 141: padding_top where the subtraction wraps (overflow checks off).
padding_top_of(h, n) == ((h - PaddingRows(n)) % U16) \div 2

\* ---- state --------------------------------------------------------------
VARIABLES
    args,       \* the parsed command line
    pc,         \* where main is: "setup", "draw", "read", "restore", "exit"
    app,        \* the AppState
    now,        \* the monotonic clock
    screen,     \* the lines of the last frame drawn, << >> before the first
    seen,       \* app.event as the last ui call read it
    height,     \* f.size().height at the last ui call, 0 before the first
    padding_top, \* padding_top of the last frame drawn, -1 before the first
    wrapped,    \* a subtraction of line 141 has wrapped: overflow checks are off
    setup,      \* the terminal set-up steps performed
    restored,   \* the terminal restoration steps performed
    run_result, \* what run_app returned: "none", "Ok", "Err"
    exit_code,  \* how the process ended: "none", "Ok", "Err", "Panic"
    last,       \* the last event read
    measured,   \* the elapsed time the last on_click measured (line 59), -1 if none
    clicks,     \* the clock value at the end of each on_click so far
    nDraw,      \* terminal.draw calls
    nRead,      \* event::read calls that returned an event
    nPress,     \* mouse-button-press events delivered
    nOnClick    \* on_click calls

vars == << args, pc, app, now, screen, seen, height, padding_top, wrapped, setup, restored, run_result, exit_code,
           last, measured, clicks, nDraw, nRead, nPress, nOnClick >>

SetupSteps   == {"enable_raw_mode", "EnterAlternateScreen", "EnableMouseCapture"}
RestoreSteps == {"disable_raw_mode", "LeaveAlternateScreen", "DisableMouseCapture",
                 "show_cursor"}

Init ==
    /\ args \in Args
    /\ pc = "setup"
    /\ app = AppState_new(0, 0)
    /\ now = 0
    /\ screen = << >>
    /\ seen = << >>
    /\ height = 0
    /\ padding_top = -1
    /\ wrapped = FALSE
    /\ setup = {}
    /\ restored = {}
    /\ run_result = "none"
    /\ exit_code = "none"
    /\ last = NoEvent
    /\ measured = -1
    /\ clicks = << >>
    /\ nDraw = 0
    /\ nRead = 0
    /\ nPress = 0
    /\ nOnClick = 0

\* ---- main, lines 72-86 --------------------------------------------------
\* The steps main has performed when its set-up ends with outcome o.
SetupDone(o) ==
    CASE o = "fail_raw_mode" -> {}
      [] o = "fail_execute"  -> {"enable_raw_mode"}
      [] o = "fail_terminal" -> SetupSteps
      [] o = "ok"            -> SetupSteps

SetupOutcomes == {"ok", "fail_raw_mode", "fail_execute", "fail_terminal"}

Setup ==
    /\ pc = "setup"
    /\ IF detect_duration_panics(args)
         THEN /\ pc' = "exit"
              /\ exit_code' = "Panic"
              /\ UNCHANGED << app, run_result, setup >>
         ELSE \E o \in SetupOutcomes :
                /\ setup' = SetupDone(o)
                /\ IF o = "ok"
                     THEN /\ pc' = "draw"
                          /\ app' = AppState_new(detect_duration(args), now)
                          /\ run_result' = "none"
                          /\ exit_code' = "none"
                     ELSE /\ pc' = "exit"
                          /\ exit_code' = "Err"
                          /\ UNCHANGED << app, run_result >>
    /\ UNCHANGED << args, now, screen, seen, height, padding_top, wrapped, restored, last, measured, clicks,
                    nDraw, nRead, nPress, nOnClick >>

\* ---- run_app ------------------------------------------------------------
\* Mutant: the error noted and the loop gone round again.
RunAppErr_retry ==
    /\ pc' = pc
    /\ run_result' = "Err"
    /\ exit_code' = exit_code

\* main, line 88: an error of run_app leaves main at once through `?`.
RunAppErr ==
    /\ pc' = "exit"
    /\ run_result' = "Err"
    /\ exit_code' = "Err"

\* ui, lines 124-157, drawing a frame on a terminal of h rows.
DrawFrame(h) ==
    /\ nDraw' = nDraw + 1
    /\ height' = h
    /\ seen' = app.event
    /\ screen' = ui_text(app)
    /\ padding_top' = padding_top_of(h, Len(app.event))
    /\ wrapped' = (wrapped \/ Underflows(h, Len(app.event)))
    /\ app' = ui_app(app)
    /\ pc' = "read"
    /\ UNCHANGED << run_result, exit_code >>

\* ui, line 141 with overflow checks on: the subtraction panics and the
\* process ends inside terminal.draw.
DrawPanic(h) ==
    /\ Underflows(h, Len(app.event))
    /\ ~wrapped
    /\ height' = h
    /\ pc' = "exit"
    /\ exit_code' = "Panic"
    /\ UNCHANGED << app, nDraw, seen, screen, padding_top, wrapped, run_result >>

\* terminal.draw returns Err.
DrawErr ==
    /\ RunAppErr
    /\ UNCHANGED << app, nDraw, seen, screen, height, padding_top, wrapped >>

\* Mutant: nothing drawn while the list is empty.
Draw_SkipEmpty ==
    /\ pc = "draw"
    /\ \/ \E h \in Heights :
            /\ nDraw' = nDraw + 1
            /\ height' = h
            /\ seen' = app.event
            /\ screen' = IF app.event = << >> THEN screen ELSE ui_text(app)
            /\ padding_top' = padding_top_of(h, Len(app.event))
            /\ wrapped' = (wrapped \/ Underflows(h, Len(app.event)))
            /\ app' = ui_app(app)
            /\ pc' = "read"
            /\ UNCHANGED << run_result, exit_code >>
       \/ \E h \in Heights : DrawPanic(h)
       \/ DrawErr
    /\ UNCHANGED << args, now, setup, restored, last, measured, clicks,
                    nRead, nPress, nOnClick >>

\* run_app, line 104: terminal.draw(|f| ui(f, &mut app))?
Draw ==
    /\ pc = "draw"
    /\ \/ \E h \in Heights : DrawFrame(h)
       \/ \E h \in Heights : DrawPanic(h)
       \/ DrawErr
    /\ UNCHANGED << args, now, setup, restored, last, measured, clicks,
                    nRead, nPress, nOnClick >>

\* Mutant: the click taken on the button release.
IsPress_Up(e) == e.type = "Mouse" /\ e.kind = "Up"

\* Mutant: every mouse event taken for a click.
IsPress_AnyMouse(e) == e.type = "Mouse"

\* Mutant: every key taken for the quit key.
IsQuit_AnyKey(e) == e.type = "Key"

\* run_app, lines 107-111, the arm of a mouse event.
IsPress(e) == e.type = "Mouse" /\ e.kind = "Down"

\* run_app, line 113
IsQuit(e) == e.type = "Key" /\ e.code = "q"

\* run_app, lines 106-118: event::read() returns e after dt ticks.
ReadEvent ==
    /\ pc = "read"
    /\ \E e \in Events, dt \in 0..MaxStep, lag \in 0..MaxLag :
         /\ now + dt + lag <= MaxTime
         /\ IsQuit(e) \/ nRead < MaxReads
         /\ last' = e
         /\ nRead' = nRead + 1
         /\ nPress' = IF e = MouseDown THEN nPress + 1 ELSE nPress
         /\ IF IsPress(e)
              THEN /\ app' = on_click(app, now + dt, now + dt + lag)
                   /\ now' = on_click_clock(app, now + dt, now + dt + lag)
                   /\ measured' = IF app.event = << >> THEN -1
                                  ELSE elapsed(app.instant, now + dt)
                   /\ clicks' = Append(clicks, now')
                   /\ nOnClick' = nOnClick + 1
              ELSE /\ now' = now + dt
                   /\ UNCHANGED << app, measured, clicks, nOnClick >>
         /\ IF IsQuit(e)
              THEN /\ pc' = "restore"
                   /\ run_result' = "Ok"
              ELSE /\ pc' = "draw"
                   /\ UNCHANGED run_result
    /\ UNCHANGED << args, screen, seen, height, padding_top, wrapped, setup, restored,
                    exit_code, nDraw >>

\* run_app, line 106: event::read()? fails.
ReadFail ==
    /\ pc = "read"
    /\ RunAppErr
    /\ UNCHANGED << args, app, now, screen, seen, height, padding_top, wrapped, setup,
                    restored, last, measured,
                    clicks, nDraw, nRead, nPress, nOnClick >>

\* ---- main, lines 90-99 --------------------------------------------------
\* The steps main has performed when its restoration ends with outcome o.
RestoreDone(o) ==
    CASE o = "fail_raw_mode" -> {}
      [] o = "fail_execute"  -> {"disable_raw_mode"}
      [] o = "fail_cursor"   -> {"disable_raw_mode", "LeaveAlternateScreen",
                                 "DisableMouseCapture"}
      [] o = "ok"            -> RestoreSteps

RestoreOutcomes == {"ok", "fail_raw_mode", "fail_execute", "fail_cursor"}

Restore ==
    /\ pc = "restore"
    /\ \E o \in RestoreOutcomes :
         /\ restored' = RestoreDone(o)
         /\ exit_code' = IF o = "ok" THEN "Ok" ELSE "Err"
    /\ pc' = "exit"
    /\ UNCHANGED << args, app, now, screen, seen, height, padding_top, wrapped, setup,
                    run_result, last, measured,
                    clicks, nDraw, nRead, nPress, nOnClick >>

Next == Setup \/ Draw \/ ReadEvent \/ ReadFail \/ Restore

Spec == Init /\ [][Next]_vars

\* ==== properties =========================================================
StrictlyIncreasing(ts) == \A i \in 1..(Len(ts) - 1) : ts[i] < ts[i + 1]

GapsWithin(ts, d) == \A i \in 1..(Len(ts) - 1) : ts[i + 1] - ts[i] <= d

SpanWithin(ts, d) == \A i \in 1..Len(ts) : ts[i] - ts[1] <= d

SinceFirst(ts) == [i \in 1..Len(ts) |-> ts[i] - ts[1]]

\* C1 as stated: from an empty tracker, clicks at strictly increasing times
\* whose consecutive gaps are all within the threshold leave one entry per
\* click, entry i being the time of click i since the first click.
C1_ConsecutiveGaps ==
    (clicks # << >> /\ StrictlyIncreasing(clicks) /\ GapsWithin(clicks, app.duration))
        => app.event = SinceFirst(clicks)

\* C1 amended: from an empty tracker, clicks at strictly increasing times
\* each of which is within the threshold of the first click leave one entry
\* per click, entry i being the time of click i since the first click.
C1_SinceAnchor ==
    (clicks # << >> /\ StrictlyIncreasing(clicks) /\ SpanWithin(clicks, app.duration))
        => app.event = SinceFirst(clicks)

C1_Witness ==
    /\ Len(clicks) = 3
    /\ StrictlyIncreasing(clicks)
    /\ SpanWithin(clicks, app.duration)
    /\ app.event = SinceFirst(clicks)
    /\ app.event[3] > app.event[2]

\* C2: an on_click on a non-empty list that measures an elapsed time above
\* the threshold leaves the list equal to <<0>> and the anchor at the time
\* of that click (the clock value when the on_click ends).
C2_ResetOnLateClick ==
    [][ ( /\ nOnClick' = nOnClick + 1
          /\ app.event # << >>
          /\ measured' > app.duration )
        => ( /\ app'.event = << 0 >>
             /\ app'.instant = now'
             /\ app'.instant = clicks'[Len(clicks')] ) ]_vars

C2_Witness ==
    /\ nOnClick >= 3
    /\ measured > app.duration
    /\ app.duration > 0
    /\ app.event = << 0 >>
    /\ app.instant = now
    /\ last = MouseDown

\* C3: every recorded entry is at least zero and at most the threshold.
C3_EntriesWithinThreshold ==
    \A i \in 1..Len(app.event) : 0 <= app.event[i] /\ app.event[i] <= app.duration

C3_Witness ==
    /\ Len(app.event) >= 3
    /\ app.duration > 0
    /\ app.event[Len(app.event)] = app.duration

\* C4: a non-empty recorded list starts with zero, after the first click
\* and after every reset caused by the threshold.
C4_FirstEntryZero == app.event # << >> => app.event[1] = 0

C4_Witness ==
    /\ nOnClick >= 2
    /\ measured > app.duration
    /\ Len(app.event) = 1
    /\ app.event[1] = 0

\* C5: whenever the program has exited after a successful terminal set-up,
\* by the quit key or by a failure of the draw or of the event read, all
\* four restoration steps have been performed.
C5_RestoredOnEveryExit ==
    (pc = "exit" /\ run_result # "none") => restored = RestoreSteps

\* C6: on_click has been called exactly once for each mouse-button-press
\* delivered, also while the loop waits for the next event.
C6_OneOnClickPerPress == nOnClick = nPress /\ Len(clicks) = nPress

C6_Witness ==
    /\ pc = "read"
    /\ nRead = 4
    /\ nPress = 2
    /\ nOnClick = 2

OtherEvents == {MouseUp, MouseMoved, KeyOther, Resize}

\* C7: reading an event that is neither a mouse-button-press nor the quit
\* key changes nothing of the tracker, and the loop goes on to its next
\* iteration.
C7_OtherEventsIgnored ==
    [][ (pc = "read" /\ nRead' = nRead + 1 /\ last' \in OtherEvents)
        => ( /\ app' = app
             /\ nOnClick' = nOnClick
             /\ run_result' = "none"
             /\ pc' = "draw" ) ]_vars

C7_Witness ==
    /\ last \in OtherEvents
    /\ pc = "read"
    /\ Len(app.event) >= 2
    /\ nRead > nPress

\* C8: reading the key 'q' ends the loop in that step with run_app
\* returning Ok, without an on_click or a redraw and with the tracker as it
\* was; once run_app has returned nothing is drawn, read or clicked again;
\* run_app returns Ok only after 'q'; and main returns Ok only then.
C8_QuitStopsLoop ==
    [][ /\ (pc = "read" /\ nRead' = nRead + 1 /\ last' = KeyQ)
            => ( /\ pc' = "restore"
                 /\ run_result' = "Ok"
                 /\ app' = app
                 /\ nOnClick' = nOnClick
                 /\ nDraw' = nDraw )
        /\ run_result # "none"
            => UNCHANGED << app, screen, last, run_result, nDraw, nRead, nOnClick >>
        /\ run_result' = "Ok" => last' = KeyQ
        /\ exit_code' = "Ok" => (run_result' = "Ok" /\ restored' = RestoreSteps)
        /\ (pc' = "exit" /\ run_result' = "Ok" /\ restored' = RestoreSteps)
            => exit_code' = "Ok" ]_vars

C8_Witness ==
    /\ pc = "exit"
    /\ last = KeyQ
    /\ run_result = "Ok"
    /\ exit_code = "Ok"
    /\ nOnClick >= 2
    /\ nDraw = nRead

\* C9: while the loop waits for input exactly one frame has been drawn since
\* the last event was read (one more frame than events in all), and that
\* frame shows the recorded list as it is now; an event read and handled is
\* followed by a draw before the next read.
C9_DisplayUpToDate ==
    /\ pc = "read" => (nDraw = nRead + 1 /\ screen = ui_text(app))
    /\ pc = "draw" => nDraw = nRead

C9_Witness ==
    /\ pc = "read"
    /\ nDraw = 4
    /\ Len(app.event) = 2
    /\ Len(screen) = 2
    /\ last \in OtherEvents

\* C10: the frame on display while the loop waits is the placeholder line
\* when nothing is recorded, and otherwise one line per entry, in order, the
\* entry's whole milliseconds in decimal followed by " ms"; with no click
\* received the list is empty and every frame drawn is the placeholder.
C10_LinesFromRecorded ==
    /\ pc = "read" =>
         IF Len(app.event) = 0
           THEN screen = << "please click the mouse!" >>
           ELSE /\ Len(screen) = Len(app.event)
                /\ \A i \in 1..Len(app.event) :
                     screen[i] = ToString(app.event[i] \div TicksPerMs) \o " ms"
    /\ (nPress = 0 /\ nDraw > 0) =>
         (app.event = << >> /\ screen = << "please click the mouse!" >>)

C10_Witness ==
    /\ pc = "read"
    /\ Len(app.event) = 3
    /\ app.event[2] % TicksPerMs # 0
    /\ app.event[3] >= TicksPerMs
    /\ screen[3] # screen[1]

\* C8 as stated, its last part: the loop ends only by the key 'q' or by an
\* I/O error of the draw or of the event read, whatever the clicks made.
C8_OnlyQuitOrErrorEndsLoop ==
    ( /\ pc \in {"restore", "exit"}
      /\ setup = SetupSteps
      /\ (run_result # "none" \/ exit_code = "Panic") )
    => (run_result = "Err" \/ (run_result = "Ok" /\ last = KeyQ))

\* C11: a draw changes nothing of the AppState (event, instant, duration),
\* and a draw that follows another with no on_click in between reads the
\* same list and draws the same lines.
C11_DrawReadOnly ==
    [][ (nDraw' = nDraw + 1)
        => ( /\ app' = app
             /\ seen' = app.event
             /\ (nDraw > 0 /\ last # MouseDown)
                  => (seen' = seen /\ screen' = screen) ) ]_vars

C11_Witness ==
    /\ pc = "read"
    /\ nDraw >= 3
    /\ nRead > nPress + 1
    /\ last \in OtherEvents
    /\ Len(seen) >= 2
    /\ seen = app.event

\* C12: with a threshold of zero and clicks at strictly increasing times the
\* recorded list is <<0>> after every on_click.
C12_ZeroThreshold ==
    (nOnClick >= 1 /\ app.duration = 0 /\ StrictlyIncreasing(clicks))
        => app.event = << 0 >>

C12_Witness ==
    /\ app.duration = 0
    /\ Len(clicks) = 3
    /\ StrictlyIncreasing(clicks)
    /\ app.event = << 0 >>
    /\ measured > 0

\* The AppState has been constructed (main, line 86).
Constructed ==
    \/ pc \in {"draw", "read", "restore"}
    \/ pc = "exit" /\ run_result # "none"
    \/ pc = "exit" /\ exit_code = "Panic" /\ setup = SetupSteps

\* C13: the threshold of the tracker is --millisecond milliseconds when that
\* option is not zero, whatever --sec is; otherwise it is --sec seconds (to
\* the resolution of the clock), one second when neither option is given.
C13_ThresholdFromOptions ==
    Constructed =>
        /\ args.millisecond # 0 => app.duration = args.millisecond * TicksPerMs
        /\ args.millisecond = 0 =>
             /\ args.sec.num >= 0
             /\ app.duration * args.sec.den <= args.sec.num * MsPerSec * TicksPerMs
             /\ args.sec.num * MsPerSec * TicksPerMs < (app.duration + 1) * args.sec.den
        /\ (args.millisecond = 0 /\ args.sec = [num |-> 1, den |-> 1])
             => app.duration = MsPerSec * TicksPerMs

C13_Witness ==
    /\ Constructed
    /\ args.millisecond = 1
    /\ args.sec.num < 0
    /\ app.duration = TicksPerMs
    /\ nOnClick >= 2
    /\ Len(app.event) = 1

\* C14: the first Err of the draw or of the event read ends the loop: in
\* that step run_app and main return Err, and nothing is read, clicked or
\* drawn afterwards.
C14_IoFailureIsFatal ==
    [][ /\ run_result' = "Err" => (pc' = "exit" /\ exit_code' = "Err")
        /\ run_result = "Err"
             => UNCHANGED << app, screen, nDraw, nRead, nOnClick, run_result, exit_code >>
      ]_vars

C14_Witness ==
    /\ pc = "exit"
    /\ run_result = "Err"
    /\ exit_code = "Err"
    /\ nRead >= 2
    /\ nOnClick >= 1
    /\ nDraw = nRead + 1

\* C15: an on_click on a non-empty list that measures an elapsed time equal
\* to the threshold appends an entry equal to the threshold and keeps the
\* earlier entries and the anchor; the list is reset only by an elapsed time
\* strictly above the threshold.
C15_StrictComparison ==
    [][ (nOnClick' = nOnClick + 1 /\ app.event # << >>)
        => ( /\ measured' = app.duration
                  => ( /\ app'.event = Append(app.event, app.duration)
                       /\ app'.instant = app.instant )
             /\ Len(app'.event) <= Len(app.event) => measured' > app.duration ) ]_vars

C15_Witness ==
    /\ nOnClick >= 3
    /\ measured = app.duration
    /\ app.duration > 0
    /\ Len(app.event) = 3
    /\ app.event[3] = app.duration
    /\ app.event[2] < app.duration

\* C16: while the list is not empty the anchor is the time of the click that
\* produced its first entry, the click that started or restarted the
\* sequence, and not the time of a later click that appended to it.
C16_AnchorIsSequenceStart ==
    app.event # << >> =>
        /\ Len(clicks) >= Len(app.event)
        /\ app.instant = clicks[Len(clicks) - Len(app.event) + 1]
        /\ \A i \in (Len(clicks) - Len(app.event) + 1)..Len(clicks) :
             app.instant <= clicks[i]

C16_Witness ==
    /\ Len(clicks) = 4
    /\ Len(app.event) = 2
    /\ app.instant = clicks[3]
    /\ clicks[2] < clicks[3]
    /\ clicks[3] < clicks[4]

\* C17: an on_click on a non-empty list that measures an elapsed time within
\* the threshold appends one entry, now - anchor, after the entries there
\* were, and changes neither the anchor nor the threshold.
C17_AppendOnly ==
    [][ ( /\ nOnClick' = nOnClick + 1
          /\ app.event # << >>
          /\ measured' <= app.duration )
        => ( /\ Len(app'.event) = Len(app.event) + 1
             /\ SubSeq(app'.event, 1, Len(app.event)) = app.event
             /\ app'.event[Len(app'.event)] = now' - app.instant
             /\ app'.instant = app.instant
             /\ app'.duration = app.duration ) ]_vars

C17_Witness ==
    /\ nOnClick >= 3
    /\ Len(app.event) = 3
    /\ measured = app.event[3]
    /\ measured % TicksPerMs # 0
    /\ measured < app.duration
    /\ app.event[2] > 0

\* C18: from the first mouse-button-press on the list is never empty, so no
\* frame drawn after it is the placeholder.
C18_NeverEmptyAgain ==
    nPress >= 1 =>
        /\ app.event # << >>
        /\ pc = "read" => (seen # << >> /\ screen # << "please click the mouse!" >>)

C18_Witness ==
    /\ pc = "read"
    /\ nPress >= 3
    /\ measured > app.duration
    /\ Len(app.event) = 1
    /\ screen = << "0 ms" >>

\* C19: at every draw 2 + len(recorded) is at most the terminal height, so
\* the u16 subtraction of the top padding does not go below zero.
C19_NoUnderflow ==
    (pc = "read" \/ (pc = "exit" /\ exit_code = "Panic" /\ setup = SetupSteps))
        => 2 + Len(app.event) <= height

====
